---- MODULE Spec2Model ----
(***************************************************************************)
(* The AI-workforce pipeline of python_codes.py and ai_workforce.py: four  *)
(* batch stages that communicate only through files.                       *)
(*   Part 1  Skill Filter          individual/skill records -> AI-skilled  *)
(*   Part 2  Panel Expander        spells -> one row per year              *)
(*   Part 3  Firm-Year Aggregator  distinct-count metrics per firm-year    *)
(*   Part 4  Projector/Combiner    one final table                         *)
(* A data frame is a sequence of rows, a row a record of its columns, a    *)
(* file a record [exists, rows].  A missing numeric cell (NaN) is the      *)
(* number NaN, a missing text cell the empty text NaNStr.  Text is a       *)
(* sequence of one-character strings, so that strip, lower, the year       *)
(* prefix and the integer parse are computed, not assumed.                 *)
(* Both scripts are modelled; the variable script says which one runs.     *)
(* The placeholder paths of the scripts are identified stage to stage:     *)
(* what one part writes is what the next part reads.                       *)
(***************************************************************************)
EXTENDS Integers, Sequences, FiniteSets, TLC

\* ------------------------------------------------------------------ bounds
\* Batch files the Part 2/3 loops expect (the scripts expect 20:
\* range(1, 1000, 50)).
MaxBatches == 2
\* Skill files the Part 1 loop expects (the scripts expect 406).
MaxSkillFiles == 2
\* Rows of an input file.
MaxRows == 2
\* The input dates span the years AsOfYear - YearSpan .. AsOfYear + 1.
YearSpan == 2

\* ------------------------------------------------------- program constants
ExpectedSkills == 81
AsOfYear == 2024
NaN == -1

NaNStr == <<>>
NoFile == [exists |-> FALSE, rows |-> <<>>]
File(rows) == [exists |-> TRUE, rows |-> rows]

PythonCodes == "python_codes"
AiWorkforce == "ai_workforce"
Scripts == {PythonCodes, AiWorkforce}

\* ------------------------------------------------------------ text helpers
IsSpace(c) == c = " "

RECURSIVE lstrip(_)
lstrip(s) == IF s # <<>> /\ IsSpace(Head(s)) THEN lstrip(Tail(s)) ELSE s

RECURSIVE rstrip(_)
rstrip(s) ==
    IF s # <<>> /\ IsSpace(s[Len(s)]) THEN rstrip(SubSeq(s, 1, Len(s) - 1)) ELSE s

\* Series.str.strip(): a missing cell stays missing.
str_strip(s) == IF s = NaNStr THEN NaNStr ELSE rstrip(lstrip(s))

lower_char(c) ==
    CASE c = "A" -> "a"
      [] c = "I" -> "i"
      [] c = "M" -> "m"
      [] c = "L" -> "l"
      [] c = "S" -> "s"
      [] c = "Q" -> "q"
      [] OTHER -> c

\* Series.str.lower()
str_lower(s) == [k \in 1..Len(s) |-> lower_char(s[k])]

\* .str.strip().str.lower() of the skill columns and of the reference list
normalize(s) == str_lower(str_strip(s))

\* The skill column of the reference workbook is long and mostly of no
\* interest: it is kept as its first cells and the number of further cells,
\* each of which holds FillLabel.  column_len is len(), column_map the
\* element-wise .str method, isin is Series.isin(values) for one cell.
FillLabel == <<"S", "Q", "L">>
column_len(col) == Len(col.cells) + col.fill
isin(v, col) ==
    \/ \E k \in 1..Len(col.cells) : col.cells[k] = v
    \/ col.fill > 0 /\ v = col.fill_label

\* Series.astype(str): a missing cell becomes the text nan
astype_str(s) == IF s = NaNStr THEN <<"n", "a", "n">> ELSE s

\* Series.str[:4]
str4(s) == SubSeq(s, 1, IF Len(s) < 4 THEN Len(s) ELSE 4)

DigitChars == <<"0", "1", "2", "3", "4", "5", "6", "7", "8", "9">>
IsDigit(c) == \E d \in 1..10 : DigitChars[d] = c
DigitVal(c) == (CHOOSE d \in 1..10 : DigitChars[d] = c) - 1

\* int() accepts a non-empty run of digits
IsInt(s) == s # <<>> /\ \A k \in 1..Len(s) : IsDigit(s[k])

RECURSIVE to_int(_)
to_int(s) ==
    IF s = <<>> THEN 0
    ELSE 10 * to_int(SubSeq(s, 1, Len(s) - 1)) + DigitVal(s[Len(s)])

\* ------------------------------------------------------- data-frame helpers
\* df[col] = v for one row: the column is added or overwritten
With(r, col, v) == [c \in DOMAIN r \cup {col} |-> IF c = col THEN v ELSE r[c]]

\* df[cols] for one row
Project(r, cols) == [c \in cols |-> r[c]]

Column(df, col) == [k \in 1..Len(df) |-> df[k][col]]

RECURSIVE SumSeq(_)
SumSeq(s) == IF s = <<>> THEN 0 ELSE Head(s) + SumSeq(Tail(s))

RECURSIVE Flatten(_)
Flatten(ss) == IF ss = <<>> THEN <<>> ELSE Head(ss) \o Flatten(Tail(ss))

\* A faulty variant that C24 rules out: only the last frame is kept
concat_last(frames) == frames[Len(frames)]

\* pd.concat(frames, ignore_index=True)
concat(frames) == Flatten(frames)

\* ------------------------------------------------------ Part 1: Skill Filter
\* skills_list = ai_skills['skill'].str.strip().str.lower().tolist()
skills_list_of(col) ==
    [cells |-> [k \in 1..Len(col.cells) |-> normalize(col.cells[k])],
     fill |-> col.fill,
     fill_label |-> normalize(col.fill_label)]

\* The two skill columns are normalised in place; a row is kept when either
\* column is in the reference list.
normalize_skills(df) ==
    [k \in 1..Len(df) |->
        [user_id |-> df[k].user_id,
         skill_raw |-> normalize(df[k].skill_raw),
         skill_mapped |-> normalize(df[k].skill_mapped)]]

\* A faulty variant that C13 rules out: only skill_raw is matched
filter_skill_raw_only(df, skills) ==
    SelectSeq(normalize_skills(df), LAMBDA r : isin(r.skill_raw, skills))

filter_skills(df, skills) ==
    SelectSeq(normalize_skills(df),
              LAMBDA r : isin(r.skill_raw, skills) \/ isin(r.skill_mapped, skills))

\* A faulty variant that C8 rules out: the list is overwritten by the frame,
\* not extended
keep_last_filtered(all, filtered_df) == <<filtered_df>>

\* What Part 1 keeps of the frames it filtered: the list all_filtered_data
\* after the append of one more frame.
append_filtered(all, filtered_df) == Append(all, filtered_df)

\* A faulty variant that C11 rules out: a list shorter than expected passes
assert_at_most(list) == column_len(list) <= ExpectedSkills

\* assert len(skills_list) == 81
assert_skills(list) == column_len(list) = ExpectedSkills

\* A faulty variant that C12 rules out: a missing file is not skipped, and is
\* read as a file without rows
never_missing(f) == TRUE

\* os.path.exists(input_file)
os_path_exists(f) == f.exists

\* A faulty variant that C16 rules out: no user id is read from the combined
\* file
no_user_ids(rows) == {}

\* pd.read_csv(user_skill_file)['user_id'].unique()
unique_user_ids(rows) == {rows[k].user_id : k \in 1..Len(rows)}

\* ---------------------------------------------------- Part 2: Panel Expander
\* df.dropna(subset=['startdate'])
dropna_startdate(df) == SelectSeq(df, LAMBDA r : r.startdate # NaNStr)

\* The text of start_year: startdate.astype(str).str[:4]
start_year_text(r) == str4(astype_str(r.startdate))

\* The text of end_year.  python_codes.py takes the prefix of the text and
\* replaces the text nan by 2024; ai_workforce.py fills the missing date with
\* 2024 and takes the prefix.
AsOfText == <<"2", "0", "2", "4">>

end_year_text(s, r) ==
    IF s = PythonCodes
    THEN LET t == str4(astype_str(r.enddate))
         IN IF t = <<"n", "a", "n">> THEN AsOfText ELSE t
    ELSE str4(astype_str(IF r.enddate = NaNStr THEN AsOfText ELSE r.enddate))

\* astype(int) raises unless every text is an integer
years_parse(s, df) ==
    \A k \in 1..Len(df) :
        IsInt(start_year_text(df[k])) /\ IsInt(end_year_text(s, df[k]))

derive_years(s, df) ==
    [k \in 1..Len(df) |->
        With(With(df[k], "start_year", to_int(start_year_text(df[k]))),
             "end_year", to_int(end_year_text(s, df[k])))]

\* A faulty variant that C14 rules out: an inner join, which drops the left
\* rows without a match
RECURSIVE merge_inner(_, _, _, _)
merge_inner(df, right, key, col) ==
    IF df = <<>> THEN <<>>
    ELSE LET r == Head(df)
             m == SelectSeq(right, LAMBDA t : t[key] = r[key])
         IN [k \in 1..Len(m) |-> With(r, col, m[k][col])]
            \o merge_inner(Tail(df), right, key, col)

\* pd.merge(df, right[[key, col]], on=key, how='left'): every left row, in
\* order, once per matching right row, and once with a missing col when no
\* right row matches.
RECURSIVE merge_left(_, _, _, _)
merge_left(df, right, key, col) ==
    IF df = <<>> THEN <<>>
    ELSE LET r == Head(df)
             m == SelectSeq(right, LAMBDA t : t[key] = r[key])
             out == IF m = <<>>
                    THEN <<With(r, col, NaN)>>
                    ELSE [k \in 1..Len(m) |-> With(r, col, m[k][col])]
         IN out \o merge_left(Tail(df), right, key, col)

\* The swap of python_codes.py (np.where over both columns); ai_workforce.py
\* has no such step.
swap_years(s, df) ==
    IF s = PythonCodes
    THEN [k \in 1..Len(df) |->
            IF df[k].start_year > df[k].end_year
            THEN With(With(df[k], "start_year", df[k].end_year),
                      "end_year", df[k].start_year)
            ELSE df[k]]
    ELSE df

\* The repeats handed to np.repeat
repeat_counts(df) == [k \in 1..Len(df) |-> df[k].end_year - df[k].start_year + 1]

\* np.repeat raises on a negative repeat
repeats_ok(counts) == \A k \in 1..Len(counts) : counts[k] >= 0

RECURSIVE np_repeat(_, _)
np_repeat(values, counts) ==
    IF values = <<>> THEN <<>>
    ELSE [k \in 1..Head(counts) |-> Head(values)]
         \o np_repeat(Tail(values), Tail(counts))

\* A faulty variant that C2 rules out: the year list counts from the year
\* after the start
range_list_from_next(start, end) ==
    IF end < start THEN <<>> ELSE [k \in 1..(end - start + 1) |-> start + k]

\* list(range(start, end + 1))
range_list(start, end) ==
    IF end < start THEN <<>> ELSE [k \in 1..(end - start + 1) |-> start + k - 1]

\* [year for start, end in zip(...) for year in range(start, end + 1)]
year_list(df) == Flatten([k \in 1..Len(df) |-> range_list(df[k].start_year, df[k].end_year)])

\* The expanded frame: every column repeated on its own, then the year list
\* attached by position.
expand_rows(df) ==
    LET counts == repeat_counts(df)
        cols == IF df = <<>> THEN {} ELSE DOMAIN df[1]
        rep == [c \in cols |-> np_repeat(Column(df, c), counts)]
        years == year_list(df)
    IN [i \in 1..SumSeq(counts) |->
            [c \in cols \cup {"year"} |-> IF c = "year" THEN years[i] ELSE rep[c][i]]]

\* Assigning the year list raises when its length is not the frame's
year_list_fits(df) == Len(year_list(df)) = SumSeq(repeat_counts(df))

\* A faulty variant that C20 rules out: the flag of a skilled user is 2
tag_labor_two(df, users) ==
    [k \in 1..Len(df) |->
        With(df[k], "labor_with_AI_skill", IF df[k].user_id \in users THEN 2 ELSE 0)]

\* df['labor_with_AI_skill'] = df['user_id'].isin(ai_skilled_users).astype(int)
tag_labor(df, users) ==
    [k \in 1..Len(df) |->
        With(df[k], "labor_with_AI_skill", IF df[k].user_id \in users THEN 1 ELSE 0)]

\* The frame of one batch up to the expansion
prepare_spells(s, df, df2, df3) ==
    swap_years(s,
        merge_left(merge_left(derive_years(s, dropna_startdate(df)),
                              df2, "rcid", "id_parat"),
                   df3, "role_k1000", "tag"))

\* ----------------------------------------------- Part 3: Firm-Year Aggregator
\* A faulty variant that C9 rules out: the value 2 passes the validation
validate_up_to_two(df) ==
    \A k \in 1..Len(df) : df[k].labor_with_AI_skill \in {0, 1, 2}

\* df['labor_with_AI_skill'].isin([0, 1]).all()
validate_labor_with_AI_skill(df) ==
    \A k \in 1..Len(df) : df[k].labor_with_AI_skill \in {0, 1}

\* A faulty variant that C19 rules out: a missing tag counts as tagged
mask_null_tagged(m, r) ==
    CASE m = "total" -> TRUE
      [] m = "tag" -> r.tag # 0
      [] m = "AI_skill" -> r.labor_with_AI_skill = 1
      [] m = "tag_AI_skill" -> r.labor_with_AI_skill = 1 /\ r.tag # 0

\* The row masks of the four metrics of one grouping key: no mask,
\* df['tag'] == 1, df['labor_with_AI_skill'] == 1, and both
mask(m, r) ==
    CASE m = "total" -> TRUE
      [] m = "tag" -> r.tag = 1
      [] m = "AI_skill" -> r.labor_with_AI_skill = 1
      [] m = "tag_AI_skill" -> r.labor_with_AI_skill = 1 /\ r.tag = 1

\* A faulty variant that C7 rules out: the rows of the group are counted, not
\* the distinct individuals
group_size(df, m, key, i) ==
    Cardinality({j \in 1..Len(df) :
                    /\ mask(m, df[j])
                    /\ df[j][key] = df[i][key]
                    /\ df[j].year = df[i].year
                    /\ df[j].user_id # NaN})

\* groupby([key, 'year'])['user_id'].nunique() of the group of row i within
\* the masked rows: the distinct user_id values, missing ones not counted
group_nunique(df, m, key, i) ==
    Cardinality({df[j].user_id : j \in {j \in 1..Len(df) :
                    /\ mask(m, df[j])
                    /\ df[j][key] = df[i][key]
                    /\ df[j].year = df[i].year
                    /\ df[j].user_id # NaN}})

\* df[mask].groupby([key, 'year'])['user_id'].transform('nunique') at a row of
\* the masked frame: groupby drops the rows with a missing key, and transform
\* leaves them missing
transform_nunique(df, m, key, i) ==
    IF df[i][key] = NaN THEN NaN ELSE group_nunique(df, m, key, i)

fillna0(v) == IF v = NaN THEN 0 ELSE v

\* df[col] = df[mask].groupby(...).transform('nunique').fillna(0): fillna acts
\* on the series of the masked rows; the assignment aligns on the index, and
\* a row outside the mask gets a missing cell
conditional_metric(df, m, key, i) ==
    IF mask(m, df[i]) THEN fillna0(transform_nunique(df, m, key, i)) ELSE NaN

\* A faulty variant that C22 rules out: the total counts the individuals of
\* the row's firm over all the years of the file
total_of_firm(df, key, i) ==
    IF df[i][key] = NaN THEN NaN
    ELSE Cardinality({df[j].user_id : j \in {j \in 1..Len(df) :
                         df[j][key] = df[i][key] /\ df[j].user_id # NaN}})

\* df[col] = df.groupby(...).transform('nunique')
total_metric(df, key, i) == transform_nunique(df, "total", key, i)

MetricColumns ==
    {"rcid_total", "rcid_tag", "rcid_AI_skill", "rcid_tag_AI_skill",
     "id_parat_total", "id_parat_tag", "id_parat_AI_skill", "id_parat_tag_AI_skill"}

\* The columns Part 3 adds to row i: all eight in python_codes.py, rcid_total
\* alone in ai_workforce.py
metric_value(df, col, i) ==
    CASE col = "rcid_total" -> total_metric(df, "rcid", i)
      [] col = "rcid_tag" -> conditional_metric(df, "tag", "rcid", i)
      [] col = "rcid_AI_skill" -> conditional_metric(df, "AI_skill", "rcid", i)
      [] col = "rcid_tag_AI_skill" -> conditional_metric(df, "tag_AI_skill", "rcid", i)
      [] col = "id_parat_total" -> total_metric(df, "id_parat", i)
      [] col = "id_parat_tag" -> conditional_metric(df, "tag", "id_parat", i)
      [] col = "id_parat_AI_skill" -> conditional_metric(df, "AI_skill", "id_parat", i)
      [] col = "id_parat_tag_AI_skill" ->
            conditional_metric(df, "tag_AI_skill", "id_parat", i)

new_columns(s) == IF s = PythonCodes THEN MetricColumns ELSE {"rcid_total"}

aggregate(s, df) ==
    [i \in 1..Len(df) |->
        [c \in DOMAIN df[i] \cup new_columns(s) |->
            IF c \in new_columns(s) THEN metric_value(df, c, i) ELSE df[i][c]]]

\* ------------------------------------------------ Part 4: Projector/Combiner
columns_to_keep ==
    {"id_parat", "rcid", "year", "rcid_total", "rcid_tag", "id_parat_total",
     "id_parat_tag", "rcid_AI_skill", "rcid_tag_AI_skill", "id_parat_AI_skill",
     "id_parat_tag_AI_skill"}

\* A faulty variant that C17 rules out: equal rows are all kept
keep_duplicates(df) == df

\* DataFrame.drop_duplicates(): the first of equal rows is kept (missing cells
\* compare equal)
RECURSIVE drop_duplicates(_)
drop_duplicates(df) ==
    IF df = <<>> THEN <<>>
    ELSE LET init == drop_duplicates(SubSeq(df, 1, Len(df) - 1))
             last == df[Len(df)]
         IN IF \E k \in 1..Len(init) : init[k] = last THEN init ELSE Append(init, last)

\* df[columns_to_keep]
select_columns(df) == [k \in 1..Len(df) |-> Project(df[k], columns_to_keep)]

\* What Part 4 keeps of one aggregated file: python_codes.py projects and
\* drops duplicates, ai_workforce.py keeps the frame as read
project(s, df) == IF s = PythonCodes THEN drop_duplicates(select_columns(df)) ELSE df

\* ------------------------------------------------------------ File names
\* str.startswith and str.endswith
startswith(name, prefix) ==
    Len(name) >= Len(prefix) /\ SubSeq(name, 1, Len(prefix)) = prefix
endswith(name, suffix) ==
    /\ Len(name) >= Len(suffix)
    /\ SubSeq(name, Len(name) - Len(suffix) + 1, Len(name)) = suffix

\* f"{i:04d}"
format_04d(n) ==
    <<DigitChars[((n \div 1000) % 10) + 1], DigitChars[((n \div 100) % 10) + 1],
      DigitChars[((n \div 10) % 10) + 1], DigitChars[(n % 10) + 1]>>

dot_csv ==
    <<".", "c", "s", "v">>
dot_parquet ==
    <<".", "p", "a", "r", "q", "u", "e", "t">>

\* filename.replace('.parquet', '.csv'), for a name that ends in .parquet
replace_parquet(name) ==
    IF endswith(name, dot_parquet)
    THEN SubSeq(name, 1, Len(name) - Len(dot_parquet)) \o dot_csv
    ELSE name

\* The n-th skill file (range(406) counts from 0) and its filtered file
skill_prefix ==
    <<"i", "n", "d", "i", "v", "i", "d", "u", "a", "l", "_", "u", "s", "e",
      "r", "_", "s", "k", "i", "l", "l", "_">>
skill_suffix ==
    <<"_", "p", "a", "r", "t", "_", "0", "0", ".", "p", "a", "r", "q", "u",
      "e", "t">>
interim_prefix ==
    <<"i", "n", "t", "e", "r", "i", "m", "_">>

skill_filename(n) == skill_prefix \o format_04d(n - 1) \o skill_suffix
interim_skill_name(n) == interim_prefix \o replace_parquet(skill_filename(n))

final_combined_skills_name ==
    <<"f", "i", "n", "a", "l", "_", "c", "o", "m", "b", "i", "n", "e", "d",
      "_", "s", "k", "i", "l", "l", "s", ".", "c", "s", "v">>

\* The batches: range(1, 1000, 50), start = i, end = min(i + 49, 999)
batch_start(b) == 1 + 50 * (b - 1)
batch_end(b) == IF batch_start(b) + 49 < 999 THEN batch_start(b) + 49 ELSE 999

combined_prefix ==
    <<"c", "o", "m", "b", "i", "n", "e", "d", "_">>

\* f"combined_{start}_{end}.csv" and the expanded file f"interim_{filename}"
combined_filename(b) ==
    combined_prefix \o format_04d(batch_start(b)) \o <<"_">>
        \o format_04d(batch_end(b)) \o dot_csv
interim_combined_name(b) == interim_prefix \o combined_filename(b)

interim_combined_prefix ==
    <<"i", "n", "t", "e", "r", "i", "m", "_", "c", "o", "m", "b", "i", "n",
      "e", "d", "_">>

\* The names Part 3 of python_codes.py expects:
\* f"interim_combined_{start}_{end}.csv"
generate_interim_filenames(b) ==
    interim_combined_prefix \o format_04d(batch_start(b)) \o <<"_">>
        \o format_04d(batch_end(b)) \o dot_csv

interim_filtered_prefix ==
    <<"i", "n", "t", "e", "r", "i", "m", "_", "f", "i", "l", "t", "e", "r",
      "e", "d", "_">>
filtered_prefix ==
    <<"f", "i", "l", "t", "e", "r", "e", "d", "_">>

\* The aggregated file: f"interim_filtered_{filename}" in python_codes.py,
\* f"filtered_{filename}" in ai_workforce.py
interim_filtered_name(s, b) ==
    IF s = PythonCodes
    THEN interim_filtered_prefix \o generate_interim_filenames(b)
    ELSE filtered_prefix \o interim_combined_name(b)

firm_year_prefix ==
    <<"[", "F", "I", "R", "M", " ", "Y", "E", "A", "R", " ", "L", "E", "V",
      "E", "L", "]", " ">>
firm_year_final ==
    <<"[", "F", "I", "R", "M", " ", "Y", "E", "A", "R", " ", "L", "E", "V",
      "E", "L", "]", " ", "F", "I", "N", "A", "L", ".", "c", "s", "v">>
firm_year_final_csv ==
    <<"f", "i", "r", "m", "_", "y", "e", "a", "r", "_", "f", "i", "n", "a",
      "l", ".", "c", "s", "v">>

\* f"[FIRM YEAR LEVEL] {filename}" (python_codes.py) and the final table
firm_year_name(b) == firm_year_prefix \o interim_filtered_name(PythonCodes, b)
final_table_name(s) == IF s = PythonCodes THEN firm_year_final ELSE firm_year_final_csv

interim_combined_start ==
    <<"i", "n", "t", "e", "r", "i", "m", "_", "c", "o", "m", "b", "i", "n",
      "e", "d">>
interim_filtered_start ==
    <<"i", "n", "t", "e", "r", "i", "m", "_", "f", "i", "l", "t", "e", "r",
      "e", "d">>
filtered_start ==
    <<"f", "i", "l", "t", "e", "r", "e", "d">>

\* The names Part 3 takes as its input: the expected names in
\* python_codes.py; startswith("interim_combined") and endswith(".csv") in
\* ai_workforce.py
part3_selects(s, name) ==
    IF s = PythonCodes
    THEN \E b \in 1..MaxBatches : name = generate_interim_filenames(b)
    ELSE startswith(name, interim_combined_start) /\ endswith(name, dot_csv)

\* A faulty variant that C23 rules out: every .csv file of the listing is
\* taken
selects_any_csv(s, name) == endswith(name, dot_csv)

\* The names Part 4 takes as its input: startswith("interim_filtered") in
\* python_codes.py, startswith("filtered") in ai_workforce.py, and
\* endswith(".csv")
part4_selects(s, name) ==
    /\ startswith(name, IF s = PythonCodes THEN interim_filtered_start ELSE filtered_start)
    /\ endswith(name, dot_csv)

\* --------------------------------------------------------------------- state
VARIABLES
    script,                 \* which of the two scripts runs
    pc,                     \* the part the run is in, or the part it raised in
    i,                      \* the loop counter of Parts 1 to 3
    excel,                  \* AI_related_skills.xlsx: the skill column
    skill_input,            \* individual_user_skill_<n>_part_00.parquet, by n
    combined_input,         \* combined_<a>_<b>.csv, by batch
    df2_file,               \* the rcid - id_parat crosswalk
    df3_file,               \* the role_k1000 - tag table
    skills_list,            \* Part 1: the normalised reference list
    dirs_made,              \* Part 1: os.makedirs of the output directories ran
    all_filtered_data,      \* Part 1: the filtered frames kept in memory
    interim_skill,          \* interim_individual_user_skill_<n>.csv, by n
    final_combined_skills,  \* final_combined_skills.csv
    ai_skilled_users,       \* Part 2: the user ids of the combined file
    interim_combined,       \* interim_combined_<a>_<b>.csv, by batch
    interim_filtered,       \* the aggregated file of Part 3, by batch
    validation_error,       \* Part 3: validate_labor_with_AI_skill raised
    todo,                   \* the os.listdir() names a loop has yet to visit
    dataframes,             \* Part 4: the frames kept for the concatenation
    firm_year,              \* [FIRM YEAR LEVEL] <name>.csv, by batch
    final_table             \* the final firm-year file

inputs == <<script, excel, skill_input, combined_input, df2_file, df3_file>>
part1_vars == <<skills_list, dirs_made, all_filtered_data, interim_skill,
               final_combined_skills>>
part2_vars == <<ai_skilled_users, interim_combined>>
part3_vars == <<interim_filtered, validation_error>>
part4_vars == <<dataframes, firm_year, final_table>>
vars == <<pc, i, todo, inputs, part1_vars, part2_vars, part3_vars, part4_vars>>

Batches == 1..MaxBatches
SkillFiles == 1..MaxSkillFiles

\* os.listdir(): the files the parts have written so far, each with its name
\* and the part that writes it.  The output directories are taken as one, so
\* that a selection by name meets the names of all the parts.
os_listdir ==
    {[name |-> interim_skill_name(n), part |-> 1] :
        n \in {n \in SkillFiles : interim_skill[n].exists}}
    \cup (IF final_combined_skills.exists
          THEN {[name |-> final_combined_skills_name, part |-> 1]} ELSE {})
    \cup {[name |-> interim_combined_name(b), part |-> 2] :
            b \in {b \in Batches : interim_combined[b].exists}}
    \cup {[name |-> interim_filtered_name(script, b), part |-> 3] :
            b \in {b \in Batches : interim_filtered[b].exists}}
    \cup {[name |-> firm_year_name(b), part |-> 4] :
            b \in {b \in Batches : firm_year[b].exists}}
    \cup (IF final_table.exists
          THEN {[name |-> final_table_name(script), part |-> 4]} ELSE {})

\* The batches whose expanded file Part 3 of ai_workforce.py finds in the
\* listing, and the batches whose aggregated file Part 4 finds
part3_listed ==
    {b \in Batches : \E f \in os_listdir :
        f.name = interim_combined_name(b) /\ part3_selects(script, f.name)}
part4_listed ==
    {b \in Batches : \E f \in os_listdir :
        f.name = interim_filtered_name(script, b) /\ part4_selects(script, f.name)}

\* ---------------------------------------------------------------- Part 1
\* The reference list is read and its length asserted, before anything else.
Part1Load ==
    /\ pc = "part1_init"
    /\ skills_list' = skills_list_of(excel)
    /\ IF assert_skills(skills_list_of(excel))
       THEN pc' = "part1_loop" /\ i' = 1 /\ dirs_made' = TRUE
       ELSE pc' = "part1_crashed" /\ i' = i /\ dirs_made' = dirs_made
    /\ all_filtered_data' = <<>>
    /\ UNCHANGED <<todo, inputs, interim_skill, final_combined_skills,
                   part2_vars, part3_vars, part4_vars>>

\* One turn of the loop over the expected skill files.
Part1Step ==
    /\ pc = "part1_loop"
    /\ i <= MaxSkillFiles
    /\ IF ~os_path_exists(skill_input[i])
       THEN UNCHANGED <<interim_skill, all_filtered_data>>
       ELSE LET filtered_df == filter_skills(skill_input[i].rows, skills_list)
            IN /\ interim_skill' = [interim_skill EXCEPT ![i] = File(filtered_df)]
               /\ all_filtered_data' = append_filtered(all_filtered_data, filtered_df)
    /\ i' = i + 1
    /\ UNCHANGED <<pc, todo, inputs, skills_list, dirs_made, final_combined_skills,
                   part2_vars, part3_vars, part4_vars>>

\* After the loop: the combined file, when any frame was kept.
Part1Combine ==
    /\ pc = "part1_loop"
    /\ i > MaxSkillFiles
    /\ final_combined_skills' =
          IF all_filtered_data # <<>>
          THEN File(concat(all_filtered_data))
          ELSE final_combined_skills
    /\ pc' = "part2_init"
    /\ UNCHANGED <<i, todo, inputs, skills_list, dirs_made, all_filtered_data,
                   interim_skill, part2_vars, part3_vars, part4_vars>>

\* ---------------------------------------------------------------- Part 2
\* pd.read_csv(user_skill_file) raises when Part 1 wrote no combined file.
Part2Load ==
    /\ pc = "part2_init"
    /\ IF final_combined_skills.exists
       THEN /\ ai_skilled_users' = unique_user_ids(final_combined_skills.rows)
            /\ pc' = "part2_loop"
            /\ i' = 1
       ELSE /\ pc' = "part2_load_crashed"
            /\ UNCHANGED <<ai_skilled_users, i>>
    /\ UNCHANGED <<todo, inputs, part1_vars, interim_combined, part3_vars, part4_vars>>

\* One turn of the loop over the expected spell batches.  The two reference
\* tables are read in the turn.  The turn raises when a year text is no
\* integer, when np.repeat is handed a negative repeat, or when the year list
\* does not fit the expanded frame.
Part2Step ==
    /\ pc = "part2_loop"
    /\ i <= MaxBatches
    /\ IF ~os_path_exists(combined_input[i])
       THEN /\ i' = i + 1
            /\ UNCHANGED <<pc, interim_combined>>
       ELSE LET df0 == dropna_startdate(combined_input[i].rows)
                df1 == prepare_spells(script, combined_input[i].rows,
                                      df2_file.rows, df3_file.rows)
            IN IF /\ years_parse(script, df0)
                  /\ repeats_ok(repeat_counts(df1))
                  /\ year_list_fits(df1)
               THEN /\ interim_combined' =
                          [interim_combined EXCEPT
                              ![i] = File(tag_labor(expand_rows(df1), ai_skilled_users))]
                    /\ i' = i + 1
                    /\ pc' = pc
               ELSE /\ pc' = "part2_crashed"
                    /\ UNCHANGED <<i, interim_combined>>
    /\ UNCHANGED <<todo, inputs, part1_vars, ai_skilled_users, part3_vars, part4_vars>>

Part2End ==
    /\ pc = "part2_loop"
    /\ i > MaxBatches
    /\ pc' = "part3_init"
    /\ UNCHANGED <<i, todo, inputs, part1_vars, part2_vars, part3_vars, part4_vars>>

\* ---------------------------------------------------------------- Part 3
\* python_codes.py walks the expected batch names in order; ai_workforce.py
\* walks os.listdir(), in the order the directory gives them.
Part3Begin ==
    /\ pc = "part3_init"
    /\ pc' = "part3_loop"
    /\ i' = 1
    /\ todo' = IF script = AiWorkforce
               THEN part3_listed
               ELSE {}
    /\ UNCHANGED <<inputs, part1_vars, part2_vars, part3_vars, part4_vars>>

\* One turn.  A failed validation ends the loop in python_codes.py (the
\* except clause prints and breaks; the script goes on after the loop) and
\* ends the script in ai_workforce.py (the exception is not caught).
Part3Step ==
    /\ pc = "part3_loop"
    /\ IF script = PythonCodes
       THEN /\ i <= MaxBatches
            /\ todo' = todo
            /\ IF ~os_path_exists(interim_combined[i])
               THEN /\ i' = i + 1
                    /\ UNCHANGED <<pc, interim_filtered, validation_error>>
               ELSE IF ~validate_labor_with_AI_skill(interim_combined[i].rows)
               THEN /\ validation_error' = TRUE
                    /\ pc' = "part4_init"
                    /\ UNCHANGED <<i, interim_filtered>>
               ELSE /\ interim_filtered' =
                          [interim_filtered EXCEPT
                              ![i] = File(aggregate(script, interim_combined[i].rows))]
                    /\ i' = i + 1
                    /\ UNCHANGED <<pc, validation_error>>
       ELSE \E b \in todo :
            /\ i' = i
            /\ IF ~validate_labor_with_AI_skill(interim_combined[b].rows)
               THEN /\ validation_error' = TRUE
                    /\ pc' = "part3_crashed"
                    /\ UNCHANGED <<todo, interim_filtered>>
               ELSE /\ interim_filtered' =
                          [interim_filtered EXCEPT
                              ![b] = File(aggregate(script, interim_combined[b].rows))]
                    /\ todo' = todo \ {b}
                    /\ UNCHANGED <<pc, validation_error>>
    /\ UNCHANGED <<inputs, part1_vars, part2_vars, part4_vars>>

Part3End ==
    /\ pc = "part3_loop"
    /\ IF script = PythonCodes THEN i > MaxBatches ELSE todo = {}
    /\ pc' = "part4_init"
    /\ UNCHANGED <<i, todo, inputs, part1_vars, part2_vars, part3_vars, part4_vars>>

\* ---------------------------------------------------------------- Part 4
\* os.listdir() of the aggregated files, taken once.
Part4Begin ==
    /\ pc = "part4_init"
    /\ pc' = "part4_loop"
    /\ todo' = part4_listed
    /\ dataframes' = <<>>
    /\ UNCHANGED <<i, inputs, part1_vars, part2_vars, part3_vars, firm_year, final_table>>

\* One file: python_codes.py projects, drops duplicates and writes the
\* per-batch firm-year file; ai_workforce.py keeps the frame as read.
Part4Step ==
    /\ pc = "part4_loop"
    /\ \E b \in todo :
        LET df_filtered == project(script, interim_filtered[b].rows)
        IN /\ firm_year' = IF script = PythonCodes
                           THEN [firm_year EXCEPT ![b] = File(df_filtered)]
                           ELSE firm_year
           /\ dataframes' = Append(dataframes, df_filtered)
           /\ todo' = todo \ {b}
    /\ UNCHANGED <<pc, i, inputs, part1_vars, part2_vars, part3_vars, final_table>>

\* The concatenation: python_codes.py writes the final file when any frame
\* was kept; pd.concat of no frame raises in ai_workforce.py.
Part4Concat ==
    /\ pc = "part4_loop"
    /\ todo = {}
    /\ IF dataframes # <<>>
       THEN /\ final_table' = File(concat(dataframes))
            /\ pc' = "done"
       ELSE /\ final_table' = final_table
            /\ pc' = IF script = PythonCodes THEN "done" ELSE "part4_crashed"
    /\ UNCHANGED <<i, todo, inputs, part1_vars, part2_vars, part3_vars,
                   dataframes, firm_year>>

Next ==
    \/ Part1Load
    \/ Part1Step
    \/ Part1Combine
    \/ Part2Load
    \/ Part2Step
    \/ Part2End
    \/ Part3Begin
    \/ Part3Step
    \/ Part3End
    \/ Part4Begin
    \/ Part4Step
    \/ Part4Concat

\* Parts 3 and 4 alone, over the expanded files found on disk.
NextAgg ==
    \/ Part3Begin
    \/ Part3Step
    \/ Part3End
    \/ Part4Begin
    \/ Part4Step
    \/ Part4Concat

\* ------------------------------------------------------------------ inputs
\* The identifiers and texts the input files are drawn from.
Users == {1, 2}
Firms == {1, 2}
Roles == {1, 2}

SeqsUpTo(S, n) == UNION {[1..k -> S] : k \in 0..n}

\* The date text of a year: YYYY-03-01
year_text(y) ==
    <<DigitChars[((y \div 1000) % 10) + 1], DigitChars[((y \div 100) % 10) + 1],
      DigitChars[((y \div 10) % 10) + 1], DigitChars[(y % 10) + 1]>>
date_text(y) == year_text(y) \o <<"-", "0", "3", "-", "0", "1">>

Years == (AsOfYear - YearSpan)..(AsOfYear + 1)
Dates == {date_text(y) : y \in Years}

\* A reference workbook of n skills; its first two, as typed: " AI ", "ML".
ExcelOf(n) ==
    [cells |-> <<(<<" ", "A", "I", " ">>), (<<"M", "L">>)>>,
     fill |-> n - 2,
     fill_label |-> FillLabel]

\* Skill labels of a record: matching on skill_raw only (up to case and
\* blanks), on skill_mapped only, on neither.
LabelPairs ==
    {<<(<<"A", "i", " ">>), (<<"h", "r">>)>>,
     <<(<<"h", "r">>), (<<" ", "m", "l">>)>>,
     <<(<<"h", "r">>), NaNStr>>}

SkillRecs ==
    {[user_id |-> u, skill_raw |-> p[1], skill_mapped |-> p[2]] :
        u \in Users, p \in LabelPairs}

Spell(u, f, r, sd, ed) ==
    [user_id |-> u, rcid |-> f, role_k1000 |-> r, startdate |-> sd, enddate |-> ed]

\* Firm 1 has an id_parat, firm 2 has none; role 1 is tagged, role 2 is not
\* listed.
Crosswalk == File(<<[rcid |-> 1, id_parat |-> 1]>>)
RoleTags == File(<<[role_k1000 |-> 1, tag |-> 1]>>)

\* An expanded row as Part 2 writes it, of a one-year spell.
ExpandedRow(u, f, p, t, y, l) ==
    [user_id |-> u, rcid |-> f,
     role_k1000 |-> IF t = 1 THEN 1 ELSE IF t = 0 THEN 2 ELSE 3,
     startdate |-> date_text(y), enddate |-> date_text(y),
     start_year |-> y, end_year |-> y, id_parat |-> p, tag |-> t,
     year |-> y, labor_with_AI_skill |-> l]

\* Nothing written yet, nothing in memory.
Fresh ==
    /\ i = 0
    /\ todo = {}
    /\ skills_list = [cells |-> <<>>, fill |-> 0, fill_label |-> FillLabel]
    /\ dirs_made = FALSE
    /\ all_filtered_data = <<>>
    /\ interim_skill = [n \in SkillFiles |-> NoFile]
    /\ final_combined_skills = NoFile
    /\ ai_skilled_users = {}
    /\ interim_filtered = [b \in Batches |-> NoFile]
    /\ validation_error = FALSE
    /\ dataframes = <<>>
    /\ firm_year = [b \in Batches |-> NoFile]
    /\ final_table = NoFile

\* A whole run over varied skill files: the first skill file holds any
\* records, the other skill files are missing or hold one record of user 2
\* that matches on skill_mapped; every spell batch holds one spell of each
\* user, and at most one batch is missing.
OneRecordFile ==
    File(<<[user_id |-> 2, skill_raw |-> <<"h", "r">>, skill_mapped |-> <<"M", "l">>]>>)

BothUsersBatch == File(<<Spell(1, 1, 1, date_text(AsOfYear), NaNStr),
                        Spell(2, 2, 2, date_text(AsOfYear - 1), date_text(AsOfYear))>>)

Init ==
    /\ script \in Scripts
    /\ pc = "part1_init"
    /\ excel \in {ExcelOf(ExpectedSkills), ExcelOf(ExpectedSkills - 1)}
    /\ \E first \in {NoFile} \cup {File(rows) : rows \in SeqsUpTo(SkillRecs, MaxRows)} :
       \E rest \in [SkillFiles \ {1} -> {NoFile, OneRecordFile}] :
          skill_input = [n \in SkillFiles |-> IF n = 1 THEN first ELSE rest[n]]
    /\ \E missing \in {0} \cup Batches :
          combined_input = [b \in Batches |-> IF b = missing THEN NoFile ELSE BothUsersBatch]
    /\ df2_file = Crosswalk
    /\ df3_file = RoleTags
    /\ interim_combined = [b \in Batches |-> NoFile]
    /\ Fresh

Spec == Init /\ [][Next]_vars

\* The sequences of at most n elements of Rich or Thin, with at most one
\* element outside Thin.
OneRichSeqs(Rich, Thin, n) ==
    UNION {{f \in [1..len -> Rich \cup Thin] :
                \A j, k \in 1..len : (f[j] \notin Thin /\ f[k] \notin Thin) => j = k} :
           len \in 0..n}

\* A whole run over varied spell dates: the k-th spell of the first batch
\* belongs to user k; one spell has any start and end date (missing, in
\* order, inverted), the others a two-year range, a range inverted by two
\* years, or no start date.  The other batches are missing or hold one spell.
DatePairs == (Dates \cup {NaNStr}) \X (Dates \cup {NaNStr})
ThinDatePairs ==
    {<<date_text(AsOfYear - 1), date_text(AsOfYear)>>,
     <<date_text(AsOfYear), date_text(AsOfYear - 2)>>,
     <<NaNStr, date_text(AsOfYear)>>}

DatedSpells ==
    {[k \in 1..Len(f) |-> Spell(k, 1, 1, f[k][1], f[k][2])] :
        f \in OneRichSeqs(DatePairs, ThinDatePairs, MaxRows)}

OneSpellBatch == File(<<Spell(1, 2, 2, date_text(AsOfYear - 1), NaNStr)>>)

InitExpand ==
    /\ script \in Scripts
    /\ pc = "part1_init"
    /\ excel = ExcelOf(ExpectedSkills)
    /\ skill_input =
          [n \in SkillFiles |->
              IF n = 1
              THEN File(<<[user_id |-> 1, skill_raw |-> <<"a", "i">>,
                           skill_mapped |-> NaNStr]>>)
              ELSE NoFile]
    /\ \E first \in {NoFile} \cup {File(rows) : rows \in DatedSpells} :
       \E rest \in [Batches \ {1} -> {NoFile, OneSpellBatch}] :
          combined_input = [b \in Batches |-> IF b = 1 THEN first ELSE rest[b]]
    /\ df2_file = Crosswalk
    /\ df3_file = RoleTags
    /\ interim_combined = [b \in Batches |-> NoFile]
    /\ Fresh

SpecExpand == InitExpand /\ [][Next]_vars

\* Parts 3 and 4 over expanded files.  The first file holds one row of any
\* user, firm, year, tag and labor_with_AI_skill (0, 1 or the invalid 2)
\* among rows of a short list; the other files are missing, valid, or hold
\* an invalid row after a valid one.
AggRows ==
    {ExpandedRow(u, f, IF f = 1 THEN 1 ELSE NaN, t, y, l) :
        u \in Users, f \in Firms, t \in {NaN, 0, 1},
        y \in {AsOfYear - 1, AsOfYear}, l \in {0, 1, 2}}

ThinAggRows ==
    {ExpandedRow(1, 1, 1, 1, AsOfYear, 1),
     ExpandedRow(2, 1, 1, 0, AsOfYear, 0),
     ExpandedRow(2, 2, NaN, NaN, AsOfYear, 1),
     ExpandedRow(1, 1, 1, 0, AsOfYear, 2)}

ValidFile == File(<<ExpandedRow(1, 1, 1, 1, AsOfYear, 1)>>)
InvalidFile == File(<<ExpandedRow(1, 1, 1, 1, AsOfYear, 1),
                     ExpandedRow(2, 1, 1, 0, AsOfYear, 2)>>)

InitAgg ==
    /\ script \in Scripts
    /\ pc = "part3_init"
    /\ excel = ExcelOf(ExpectedSkills)
    /\ skill_input = [n \in SkillFiles |-> NoFile]
    /\ combined_input = [b \in Batches |-> NoFile]
    /\ df2_file = Crosswalk
    /\ df3_file = RoleTags
    /\ \E first \in {NoFile} \cup
                    {File(rows) : rows \in OneRichSeqs(AggRows, ThinAggRows, MaxRows)} :
       \E rest \in [Batches \ {1} -> {NoFile, ValidFile, InvalidFile}] :
          interim_combined = [b \in Batches |-> IF b = 1 THEN first ELSE rest[b]]
    /\ Fresh

SpecAgg == InitAgg /\ [][NextAgg]_vars

\* A whole run over varied reference tables: the crosswalk and the role-tag
\* table hold any entries of a short list (none, one per key, several for a
\* key); the first spell batch holds a spell of each user in firm 1, under
\* role 1 and role 2, and the other batches are missing.
CrosswalkEntries ==
    {[rcid |-> 1, id_parat |-> 1], [rcid |-> 1, id_parat |-> 2],
     [rcid |-> 2, id_parat |-> 1]}
RoleTagEntries ==
    {[role_k1000 |-> 1, tag |-> 1], [role_k1000 |-> 1, tag |-> 0],
     [role_k1000 |-> 2, tag |-> 0]}

TwoRolesBatch ==
    File(<<Spell(1, 1, 1, date_text(AsOfYear - 1), date_text(AsOfYear)),
           Spell(2, 1, 2, date_text(AsOfYear), NaNStr)>>)

InitJoin ==
    /\ script \in Scripts
    /\ pc = "part1_init"
    /\ excel = ExcelOf(ExpectedSkills)
    /\ skill_input =
          [n \in SkillFiles |->
              IF n = 1
              THEN File(<<[user_id |-> 1, skill_raw |-> <<"a", "i">>,
                           skill_mapped |-> NaNStr]>>)
              ELSE NoFile]
    /\ combined_input = [b \in Batches |-> IF b = 1 THEN TwoRolesBatch ELSE NoFile]
    /\ df2_file \in {File(rows) : rows \in SeqsUpTo(CrosswalkEntries, MaxRows)}
    /\ df3_file \in {File(rows) : rows \in SeqsUpTo(RoleTagEntries, MaxRows)}
    /\ interim_combined = [b \in Batches |-> NoFile]
    /\ Fresh

SpecJoin == InitJoin /\ [][Next]_vars

\* A whole run during which the reference files are rewritten by their owner:
\* after a batch has been expanded, the crosswalk or the role-tag table gets
\* another content.  Every spell batch is missing or holds two spells.
CrosswalkChanged == File(<<[rcid |-> 1, id_parat |-> 2]>>)
RoleTagsChanged == File(<<[role_k1000 |-> 1, tag |-> 0]>>)

ReferenceChanges ==
    /\ pc = "part2_loop"
    /\ \E b \in Batches : interim_combined[b].exists
    /\ \/ df2_file = Crosswalk /\ df2_file' = CrosswalkChanged /\ df3_file' = df3_file
       \/ df3_file = RoleTags /\ df3_file' = RoleTagsChanged /\ df2_file' = df2_file
    /\ UNCHANGED <<pc, i, todo, script, excel, skill_input, combined_input,
                   part1_vars, part2_vars, part3_vars, part4_vars>>

NextRef ==
    \/ Next
    \/ ReferenceChanges

InitRef ==
    /\ script \in Scripts
    /\ pc = "part1_init"
    /\ excel = ExcelOf(ExpectedSkills)
    /\ skill_input =
          [n \in SkillFiles |->
              IF n = 1
              THEN File(<<[user_id |-> 1, skill_raw |-> <<"a", "i">>,
                           skill_mapped |-> NaNStr]>>)
              ELSE NoFile]
    /\ combined_input \in [Batches -> {NoFile, BothUsersBatch, TwoRolesBatch}]
    /\ df2_file = Crosswalk
    /\ df3_file = RoleTags
    /\ interim_combined = [b \in Batches |-> NoFile]
    /\ Fresh

SpecRef == InitRef /\ [][NextRef]_vars

\* Runs over the directories of earlier runs: a script that has finished is
\* started again; the files stay as they are, the variables of the script
\* start anew.
Rerun ==
    /\ pc = "done"
    /\ pc' = "part1_init"
    /\ i' = 0
    /\ todo' = {}
    /\ skills_list' = [cells |-> <<>>, fill |-> 0, fill_label |-> FillLabel]
    /\ all_filtered_data' = <<>>
    /\ ai_skilled_users' = {}
    /\ validation_error' = FALSE
    /\ dataframes' = <<>>
    /\ UNCHANGED <<inputs, dirs_made, interim_skill, final_combined_skills,
                   interim_combined, interim_filtered, firm_year, final_table>>

NextRerun ==
    \/ Next
    \/ Rerun

SpecRerun == InitRef /\ [][NextRerun]_vars

\* ================================================================== claims
\* The positions of a frame's rows that satisfy a condition on (rcid, year)
SameFirmYear(r1, r2) == r1.rcid = r2.rcid /\ r1.year = r2.year

\* C1: after Part 4 of python_codes.py has projected every aggregated batch,
\* dropped duplicates and concatenated, the final table holds at most one row
\* per (rcid, year).
C1_OneRowPerFirmYear ==
    (script = PythonCodes /\ final_table.exists) =>
        \A j, k \in 1..Len(final_table.rows) :
            SameFirmYear(final_table.rows[j], final_table.rows[k]) => j = k

\* The years of a spell as the claims read them off its dates: the first four
\* characters, and the as-of year for a missing end date.
SpellStart(r) == to_int(SubSeq(r.startdate, 1, 4))
SpellEnd(r) == IF r.enddate = NaNStr THEN AsOfYear ELSE to_int(SubSeq(r.enddate, 1, 4))
Lo(r) == IF SpellStart(r) <= SpellEnd(r) THEN SpellStart(r) ELSE SpellEnd(r)
Hi(r) == IF SpellStart(r) <= SpellEnd(r) THEN SpellEnd(r) ELSE SpellStart(r)

SpellColumns == {"user_id", "rcid", "role_k1000", "startdate", "enddate"}

\* The expanded rows of one spell (a spell is known by its user within its
\* batch), and what they must be for the year range lo..hi
RowsOfSpell(b, r) ==
    SelectSeq(interim_combined[b].rows, LAMBDA x : x.user_id = r.user_id)

ExpandsTo(b, r, lo, hi) ==
    LET rows == RowsOfSpell(b, r)
    IN /\ Len(rows) = hi - lo + 1
       /\ \A j \in 1..Len(rows) :
            /\ rows[j].year = lo + j - 1
            /\ \A c \in SpellColumns : rows[j][c] = r[c]

\* Part 2 is past batch b
Part2Past(b) ==
    \/ pc = "part2_loop" /\ i > b
    \/ pc \in {"part3_init", "part3_loop", "part3_crashed", "part4_init", "part4_loop",
               "part4_crashed", "done"}

\* The spells of batch b that reach the expansion, and the range each has
\* there: python_codes.py has swapped an inverted range, ai_workforce.py has
\* not.
ReachExpansion(b) ==
    {combined_input[b].rows[k] : k \in {k \in 1..Len(combined_input[b].rows) :
                                          combined_input[b].rows[k].startdate # NaNStr}}
StartAtExpansion(r) == IF script = PythonCodes THEN Lo(r) ELSE SpellStart(r)
EndAtExpansion(r) == IF script = PythonCodes THEN Hi(r) ELSE SpellEnd(r)

\* C2: a spell that reaches the expansion with start_year <= end_year yields
\* exactly end_year - start_year + 1 rows, with the years start_year..end_year
\* in order, each carrying the spell's own columns; the expansion of
\* python_codes.py, where every spell reaches it so, never raises and writes
\* the expanded file of every batch it read.
C2_ExpansionRows ==
    /\ script = PythonCodes => pc # "part2_crashed"
    /\ \A b \in Batches :
        /\ (script = PythonCodes /\ Part2Past(b) /\ combined_input[b].exists)
              => interim_combined[b].exists
        /\ interim_combined[b].exists =>
              \A r \in ReachExpansion(b) :
                  StartAtExpansion(r) <= EndAtExpansion(r) =>
                      ExpandsTo(b, r, StartAtExpansion(r), EndAtExpansion(r))

\* C2 witness: an expanded batch of two spells, one of a single year and one
\* of three years.
C2_Witness ==
    /\ interim_combined[1].exists
    /\ \E r1, r2 \in ReachExpansion(1) :
        /\ r1.user_id # r2.user_id
        /\ StartAtExpansion(r1) = EndAtExpansion(r1)
        /\ EndAtExpansion(r2) = StartAtExpansion(r2) + 2
        /\ Len(RowsOfSpell(1, r1)) = 1
        /\ Len(RowsOfSpell(1, r2)) = 3

\* C3: in both scripts a spell with start_year > end_year is swapped before
\* the expansion: the expansion never raises on it, and it yields
\* start - end + 1 rows for the years end..start, never zero rows.
C3_InvertedSpellRepaired ==
    /\ pc # "part2_crashed"
    /\ \A b \in Batches :
        interim_combined[b].exists =>
            \A r \in ReachExpansion(b) :
                SpellStart(r) > SpellEnd(r) => ExpandsTo(b, r, SpellEnd(r), SpellStart(r))

\* The rows of the aggregated file of batch b
Agg(b) == interim_filtered[b].rows

\* What the claims say a metric counts: the distinct user_id values among the
\* rows of the frame that share row r's key and year and satisfy the
\* predicate of the metric
Satisfies(m, r) ==
    CASE m = "total" -> TRUE
      [] m = "tag" -> r.tag = 1
      [] m = "AI_skill" -> r.labor_with_AI_skill = 1
      [] m = "tag_AI_skill" -> r.tag = 1 /\ r.labor_with_AI_skill = 1

DistinctUsers(df, m, key, r) ==
    Cardinality({df[j].user_id : j \in {j \in 1..Len(df) :
                    df[j][key] = df[r][key] /\ df[j].year = df[r].year
                    /\ Satisfies(m, df[j])}})

MetricName(key, m) ==
    CASE key = "rcid" /\ m = "total" -> "rcid_total"
      [] key = "rcid" /\ m = "tag" -> "rcid_tag"
      [] key = "rcid" /\ m = "AI_skill" -> "rcid_AI_skill"
      [] key = "rcid" /\ m = "tag_AI_skill" -> "rcid_tag_AI_skill"
      [] key = "id_parat" /\ m = "total" -> "id_parat_total"
      [] key = "id_parat" /\ m = "tag" -> "id_parat_tag"
      [] key = "id_parat" /\ m = "AI_skill" -> "id_parat_AI_skill"
      [] key = "id_parat" /\ m = "tag_AI_skill" -> "id_parat_tag_AI_skill"

Keys == {"rcid", "id_parat"}
Conditions == {"tag", "AI_skill", "tag_AI_skill"}

\* C4: on every row of a batch aggregated by python_codes.py, each of the six
\* conditional metrics is the number of distinct individuals of the row's
\* group that satisfy the metric's predicate, whether or not the row itself
\* satisfies it.  (Stated for the groups in which some individual satisfies
\* the predicate; rows with a missing key are left out.)
C4_ConditionalMetricIsGroupCount ==
    script = PythonCodes =>
        \A b \in Batches : \A r \in 1..Len(Agg(b)) :
            \A key \in Keys : \A m \in Conditions :
                (Agg(b)[r][key] # NaN /\ DistinctUsers(Agg(b), m, key, r) > 0) =>
                    Agg(b)[r][MetricName(key, m)] = DistinctUsers(Agg(b), m, key, r)

\* C5: in a batch aggregated by python_codes.py, two rows of one (rcid, year)
\* agree on the four rcid_ metrics, and two rows of one (id_parat, year) on
\* the four id_parat_ metrics.
C5_SameKeySameMetrics ==
    script = PythonCodes =>
        \A b \in Batches : \A j, k \in 1..Len(Agg(b)) : \A key \in Keys :
            (/\ Agg(b)[j][key] # NaN
             /\ Agg(b)[j][key] = Agg(b)[k][key]
             /\ Agg(b)[j].year = Agg(b)[k].year)
            => \A m \in Conditions \cup {"total"} :
                  Agg(b)[j][MetricName(key, m)] = Agg(b)[k][MetricName(key, m)]

\* C6: in a batch aggregated by python_codes.py, a conditional metric is 0 on
\* every row of a group in which no individual satisfies its predicate, and
\* is missing on no row.  (Rows with a missing key are left out.)
C6_NoMatchIsZero ==
    script = PythonCodes =>
        \A b \in Batches : \A r \in 1..Len(Agg(b)) :
            \A key \in Keys : \A m \in Conditions :
                Agg(b)[r][key] # NaN =>
                    /\ Agg(b)[r][MetricName(key, m)] # NaN
                    /\ DistinctUsers(Agg(b), m, key, r) = 0
                          => Agg(b)[r][MetricName(key, m)] = 0

\* C7 as stated: on every row of an aggregated batch, rcid_total is the number
\* of distinct individuals of the row's (rcid, year), and id_parat_total (in
\* python_codes.py, which alone computes it) that of the row's
\* (id_parat, year).
C7_TotalsOnEveryRow ==
    \A b \in Batches : \A r \in 1..Len(Agg(b)) :
        /\ Agg(b)[r].rcid_total = DistinctUsers(Agg(b), "total", "rcid", r)
        /\ script = PythonCodes =>
              Agg(b)[r].id_parat_total = DistinctUsers(Agg(b), "total", "id_parat", r)

\* C7 as amended: a total is the number of distinct individuals of the row's
\* group on every row whose key is known (several rows of one individual
\* count once); on a row with a missing id_parat, id_parat_total is missing.
C7_TotalsWhereKeyIsKnown ==
    \A b \in Batches : \A r \in 1..Len(Agg(b)) :
        /\ Agg(b)[r].rcid # NaN =>
              Agg(b)[r].rcid_total = DistinctUsers(Agg(b), "total", "rcid", r)
        /\ script = PythonCodes =>
              IF Agg(b)[r].id_parat # NaN
              THEN Agg(b)[r].id_parat_total = DistinctUsers(Agg(b), "total", "id_parat", r)
              ELSE Agg(b)[r].id_parat_total = NaN

\* C7 witness: an aggregated batch with two rows of one individual in one
\* firm-year, under different roles, of a firm without id_parat: rcid_total is
\* 1 on both rows and id_parat_total is missing.
C7_Witness ==
    /\ script = PythonCodes
    /\ Len(Agg(1)) = 2
    /\ Agg(1)[1].user_id = Agg(1)[2].user_id
    /\ Agg(1)[1].rcid = Agg(1)[2].rcid
    /\ Agg(1)[1].year = Agg(1)[2].year
    /\ Agg(1)[1].role_k1000 # Agg(1)[2].role_k1000
    /\ \A r \in 1..2 :
          /\ Agg(1)[r].id_parat = NaN
          /\ Agg(1)[r].rcid_total = 1
          /\ Agg(1)[r].id_parat_total = NaN

\* The skill-filter outputs on disk, and the individuals in them
FilteredUsers ==
    UNION {{interim_skill[n].rows[k].user_id : k \in 1..Len(interim_skill[n].rows)} :
           n \in SkillFiles}

\* C8: on every expanded row, labor_with_AI_skill is 1 when the row's user_id
\* is in some skill-filter output and 0 otherwise.
C8_LaborIsMembership ==
    \A b \in Batches : \A k \in 1..Len(interim_combined[b].rows) :
        interim_combined[b].rows[k].labor_with_AI_skill =
            IF interim_combined[b].rows[k].user_id \in FilteredUsers THEN 1 ELSE 0

\* C8 witness: an expanded batch with a row flagged 1 of an individual who is
\* in two skill-filter outputs, twice in one of them, and a row flagged 0.
C8_Witness ==
    \E b \in Batches : \E j, k \in 1..Len(interim_combined[b].rows) :
        LET rj == interim_combined[b].rows[j]
            rk == interim_combined[b].rows[k]
        IN /\ rj.labor_with_AI_skill = 1
           /\ rk.labor_with_AI_skill = 0
           /\ \A n \in {1, 2} :
                 \E x \in 1..Len(interim_skill[n].rows) :
                     interim_skill[n].rows[x].user_id = rj.user_id
           /\ \E x, y \in 1..Len(interim_skill[1].rows) :
                 /\ x # y
                 /\ interim_skill[1].rows[x].user_id = rj.user_id
                 /\ interim_skill[1].rows[y].user_id = rj.user_id

\* A batch whose expanded file holds a labor_with_AI_skill outside 0 and 1
InvalidBatch(b) ==
    /\ interim_combined[b].exists
    /\ \E k \in 1..Len(interim_combined[b].rows) :
          interim_combined[b].rows[k].labor_with_AI_skill \notin {0, 1}

\* C9: a batch with an invalid labor_with_AI_skill is aborted: no aggregated
\* file (and no firm-year file) is ever written for it, and the step in which
\* the validation fails changes neither the expanded files nor any aggregated
\* file written before.
C9_InvalidBatchAborted ==
    /\ [](\A b \in Batches :
            InvalidBatch(b) => ~interim_filtered[b].exists /\ ~firm_year[b].exists)
    /\ [][(~validation_error /\ validation_error') =>
            (interim_filtered' = interim_filtered /\ interim_combined' = interim_combined)]_vars

\* C9 witness: the validation has failed on one batch, after the aggregated
\* file of another batch was written.
C9_Witness ==
    /\ validation_error
    /\ \E b1, b2 \in Batches :
        /\ interim_filtered[b1].exists
        /\ InvalidBatch(b2)
        /\ ~interim_filtered[b2].exists

\* C10: once the validation has failed, the run stops: Part 4 does not run,
\* so that run writes no final firm-year table out of the batches aggregated
\* before the failure.
C10_NoFinalTableAfterInvalid ==
    validation_error => ~(final_table.exists /\ final_table.rows # <<>>)

\* Nothing has been written by the run
NothingWritten ==
    /\ ~dirs_made
    /\ \A n \in SkillFiles : ~interim_skill[n].exists
    /\ ~final_combined_skills.exists
    /\ \A b \in Batches :
          ~interim_combined[b].exists /\ ~interim_filtered[b].exists /\ ~firm_year[b].exists
    /\ ~final_table.exists

\* C11: when the reference list does not hold exactly 81 entries, the run
\* fails at the assertion: it never gets past the start of Part 1, no output
\* directory is made, no interim or combined file is written, and no later
\* part runs.
C11_WrongListFailsFast ==
    /\ Len(excel.cells) + excel.fill # ExpectedSkills =>
          pc \in {"part1_init", "part1_crashed"}
    /\ pc = "part1_crashed" => NothingWritten /\ i = 0

\* C11 witness: the run has failed at the assertion with a skill file and a
\* spell batch waiting to be read.
C11_Witness ==
    /\ pc = "part1_crashed"
    /\ Len(excel.cells) + excel.fill = ExpectedSkills - 1
    /\ skill_input[1].exists
    /\ combined_input[1].exists

\* Where the run is, relative to the three loops
Part1Over == pc \notin {"part1_init", "part1_crashed", "part1_loop"}
Part2Over == Part1Over /\ pc \notin {"part2_init", "part2_load_crashed", "part2_loop",
                                     "part2_crashed"}
Part3Over == Part2Over /\ pc \notin {"part3_init", "part3_loop", "part3_crashed"}

ReferenceSet ==
    {normalize(excel.cells[k]) : k \in 1..Len(excel.cells)}
    \cup (IF excel.fill > 0 THEN {normalize(excel.fill_label)} ELSE {})

\* A record matches when either label, trimmed and lower-cased, is a
\* reference label
Matches(rec) ==
    \/ normalize(rec.skill_raw) \in ReferenceSet
    \/ normalize(rec.skill_mapped) \in ReferenceSet

\* C13: the output of a skill file holds exactly the records of the file that
\* match on skill_raw or on skill_mapped after trimming and lower-casing, in
\* the order of the file, with the two labels trimmed and lower-cased.
C13_KeptIffEitherLabelMatches ==
    \A n \in SkillFiles :
        interim_skill[n].exists =>
            LET sel == SelectSeq(skill_input[n].rows, Matches)
                out == interim_skill[n].rows
            IN /\ Len(out) = Len(sel)
               /\ \A j \in 1..Len(sel) :
                    /\ out[j].user_id = sel[j].user_id
                    /\ out[j].skill_raw = normalize(sel[j].skill_raw)
                    /\ out[j].skill_mapped = normalize(sel[j].skill_mapped)

\* C13 witness: the first skill file holds a record with skill_raw "Ai " (kept
\* as "ai" against the reference " AI ") and a record matching on neither
\* label (dropped); the second holds a record matching on skill_mapped "Ml"
\* only (kept).
C13_Witness ==
    /\ interim_skill[1].exists /\ interim_skill[2].exists
    /\ Len(skill_input[1].rows) = 2
    /\ skill_input[1].rows[1].skill_raw = <<"A", "i", " ">>
    /\ skill_input[1].rows[2].skill_raw = <<"h", "r">>
    /\ skill_input[1].rows[2].skill_mapped = NaNStr
    /\ Len(interim_skill[1].rows) = 1
    /\ interim_skill[1].rows[1].skill_raw = <<"a", "i">>
    /\ skill_input[2].rows[1].skill_raw = <<"h", "r">>
    /\ skill_input[2].rows[1].skill_mapped = <<"M", "l">>
    /\ Len(interim_skill[2].rows) = 1

\* A reference table has no entry for a key value / has no key value twice
NoEntry(table, key, v) == \A k \in 1..Len(table) : table[k][key] # v
UniqueKeys(table, key) ==
    \A j, k \in 1..Len(table) : table[j][key] = table[k][key] => j = k

\* The joined rows of a spell, read off the expanded file: each joined row
\* expands to one row per year of the spell, so one row of the first year
JoinedRows(b, r) == SelectSeq(RowsOfSpell(b, r), LAMBDA x : x.year = Lo(r))

\* C14: the two left joins drop no spell: every spell with a start date has
\* rows in the expanded file, with its own rcid and role_k1000; a spell
\* without a crosswalk entry has a missing id_parat, a spell without a
\* role-tag entry a missing tag; and when neither reference table has a key
\* twice, every spell has exactly one joined row.
C14_LeftJoinsKeepEverySpell ==
    \A b \in Batches :
        interim_combined[b].exists =>
            \A r \in ReachExpansion(b) :
                LET rows == RowsOfSpell(b, r)
                IN /\ Len(rows) >= 1
                   /\ \A j \in 1..Len(rows) :
                        /\ rows[j].rcid = r.rcid
                        /\ rows[j].role_k1000 = r.role_k1000
                        /\ NoEntry(df2_file.rows, "rcid", r.rcid) => rows[j].id_parat = NaN
                        /\ NoEntry(df3_file.rows, "role_k1000", r.role_k1000)
                              => rows[j].tag = NaN
                   /\ (UniqueKeys(df2_file.rows, "rcid")
                       /\ UniqueKeys(df3_file.rows, "role_k1000"))
                         => Len(JoinedRows(b, r)) = 1

\* C14 witness: a batch expanded against a crosswalk that lists firm 2 only
\* and a role-tag table that lists role 1 only: the spell of user 2 (firm 1,
\* role 2) has its one row, with id_parat and tag missing.
C14_Witness ==
    /\ interim_combined[1].exists
    /\ df2_file.rows = <<[rcid |-> 2, id_parat |-> 1]>>
    /\ df3_file.rows = <<[role_k1000 |-> 1, tag |-> 1]>>
    /\ \E r \in ReachExpansion(1) :
        /\ r.user_id = 2
        /\ Len(RowsOfSpell(1, r)) = 1
        /\ RowsOfSpell(1, r)[1].rcid = 1
        /\ RowsOfSpell(1, r)[1].id_parat = NaN
        /\ RowsOfSpell(1, r)[1].tag = NaN

\* The spells of batch b with a start date and no end date
OpenEnded(b) == {r \in ReachExpansion(b) : r.enddate = NaNStr}

\* C15: a spell without an end date is expanded up to the as-of year: once
\* Part 2 is past its batch, the expanded file of the batch holds a row of the
\* spell for the as-of year and for every year between its start year and the
\* as-of year.
C15_MissingEndRunsToAsOfYear ==
    \A b \in Batches :
        (Part2Past(b) /\ combined_input[b].exists) =>
            \A r \in OpenEnded(b) :
                /\ interim_combined[b].exists
                /\ \A y \in Lo(r)..Hi(r) :
                      \E j \in 1..Len(RowsOfSpell(b, r)) : RowsOfSpell(b, r)[j].year = y

\* The end-to-end example: python_codes.py over a single batch that holds one
\* spell of user 1 (AI-skilled) in firm 1 under role 1 (tagged), starting in
\* year s, without end date
OneOpenSpell(s) ==
    /\ script = PythonCodes
    /\ combined_input =
          [b \in Batches |->
              IF b = 1 THEN File(<<Spell(1, 1, 1, date_text(s), NaNStr)>>) ELSE NoFile]

AllOnes(r) ==
    \A key \in Keys : \A m \in Conditions \cup {"total"} : r[MetricName(key, m)] = 1

\* C16: in the end-to-end example the expanded file holds one row per year
\* s..as-of year, each with labor_with_AI_skill = 1 and tag = 1; the
\* aggregated file has total = tag = AI_skill = both = 1 on each of them; and
\* the run ends with a final table of exactly one row per year for firm 1.
C16_EndToEndExample ==
    \A s \in (AsOfYear - YearSpan)..AsOfYear :
        OneOpenSpell(s) =>
            LET n == AsOfYear - s + 1
            IN /\ pc \notin {"part2_crashed", "part2_load_crashed"} /\ ~validation_error
               /\ Part2Past(1) =>
                    /\ Len(interim_combined[1].rows) = n
                    /\ \A j \in 1..n :
                          /\ interim_combined[1].rows[j].year = s + j - 1
                          /\ interim_combined[1].rows[j].user_id = 1
                          /\ interim_combined[1].rows[j].rcid = 1
                          /\ interim_combined[1].rows[j].labor_with_AI_skill = 1
                          /\ interim_combined[1].rows[j].tag = 1
               /\ Part3Over =>
                    /\ Len(Agg(1)) = n
                    /\ \A j \in 1..n : Agg(1)[j].year = s + j - 1 /\ AllOnes(Agg(1)[j])
               /\ pc = "done" =>
                    /\ final_table.exists
                    /\ Len(final_table.rows) = n
                    /\ \A j \in 1..n :
                          /\ final_table.rows[j].rcid = 1
                          /\ final_table.rows[j].year = s + j - 1
                          /\ AllOnes(final_table.rows[j])

\* C16 witness: the example of a spell of three years has run to its end.
C16_Witness ==
    /\ OneOpenSpell(AsOfYear - 2)
    /\ pc = "done"
    /\ Len(interim_combined[1].rows) = 3
    /\ Len(final_table.rows) = 3

\* C17: the projection of python_codes.py is idempotent: a per-batch
\* firm-year file holds the fixed columns only and no row twice, and selecting
\* the fixed columns and dropping duplicates once more yields the same table.
C17_ProjectionIdempotent ==
    \A b \in Batches :
        firm_year[b].exists =>
            /\ \A j \in 1..Len(firm_year[b].rows) :
                  DOMAIN firm_year[b].rows[j] = columns_to_keep
            /\ \A j, k \in 1..Len(firm_year[b].rows) :
                  firm_year[b].rows[j] = firm_year[b].rows[k] => j = k
            /\ project(PythonCodes, firm_year[b].rows) = firm_year[b].rows

\* C17 witness: a firm-year file in which the two rows of an aggregated batch
\* have collapsed to one.
C17_Witness ==
    /\ firm_year[1].exists
    /\ Len(interim_filtered[1].rows) = 2
    /\ Len(firm_year[1].rows) = 1

\* The spells of batch b as read, with or without start date
SpellsRead(b) == {combined_input[b].rows[k] : k \in 1..Len(combined_input[b].rows)}

\* C18: in an expanded file no row comes from a spell without start date, and
\* every spell with a start date has at least one row.
C18_StartlessDroppedOthersKept ==
    \A b \in Batches :
        interim_combined[b].exists =>
            \A r \in SpellsRead(b) :
                IF r.startdate = NaNStr
                THEN RowsOfSpell(b, r) = <<>>
                ELSE Len(RowsOfSpell(b, r)) >= 1

\* The rows of a frame in the group of row x by a key: the same key value,
\* not missing, and the same year
GroupOf(df, key, x) ==
    {k \in 1..Len(df) : /\ df[x][key] # NaN
                        /\ df[k][key] = df[x][key]
                        /\ df[k].year = df[x].year}

TagConditions == {"tag", "tag_AI_skill"}

\* C19: a row with a missing tag is kept as it is through the aggregation
\* (the aggregated file holds every expanded row, in order); its individual
\* is counted in rcid_total, and in id_parat_total where the firm has an
\* id_parat; and no tag-conditional metric of its group counts it: wherever
\* such a metric has a value in the group, the value is the number of distinct
\* individuals of the group with tag = 1.
C19_NullTagIsNotTagged ==
    \A b \in Batches :
        interim_filtered[b].exists =>
            /\ Len(Agg(b)) = Len(interim_combined[b].rows)
            /\ \A x \in 1..Len(Agg(b)) :
                  /\ \A c \in DOMAIN interim_combined[b].rows[x] :
                        Agg(b)[x][c] = interim_combined[b].rows[x][c]
                  /\ Agg(b)[x].tag = NaN =>
                        /\ Agg(b)[x].rcid_total = DistinctUsers(Agg(b), "total", "rcid", x)
                        /\ Agg(b)[x].rcid_total >= 1
                        /\ script = PythonCodes =>
                              /\ Agg(b)[x].id_parat # NaN =>
                                    Agg(b)[x].id_parat_total =
                                        DistinctUsers(Agg(b), "total", "id_parat", x)
                              /\ \A key \in Keys : \A m \in TagConditions :
                                  \A k \in GroupOf(Agg(b), key, x) :
                                      Agg(b)[k][MetricName(key, m)] # NaN =>
                                          Agg(b)[k][MetricName(key, m)] =
                                              DistinctUsers(Agg(b), m, key, k)

\* C19 witness: python_codes.py has aggregated a batch in which user 2 (role
\* without tag entry) and user 1 (tagged) share a firm-year: the row of user 2
\* is there with rcid_total = 2, and the row of user 1 has rcid_tag = 1.
C19_Witness ==
    /\ script = PythonCodes
    /\ interim_filtered[1].exists
    /\ \E x, k \in 1..Len(Agg(1)) :
        /\ Agg(1)[x].user_id = 2 /\ Agg(1)[x].tag = NaN
        /\ Agg(1)[k].user_id = 1 /\ Agg(1)[k].tag = 1
        /\ k \in GroupOf(Agg(1), "rcid", x)
        /\ Agg(1)[x].rcid_total = 2
        /\ Agg(1)[k].rcid_tag = 1

\* C20: every row of an expanded file has labor_with_AI_skill 0 or 1; the
\* validation of Part 3 never fails in a run that expanded the files itself;
\* an aggregated file carries the column of its expanded file unchanged; and
\* no step of Part 3 or Part 4 changes an expanded file.
C20_LaborFlagStaysBinary ==
    /\ [](/\ ~validation_error
          /\ pc # "part3_crashed"
          /\ \A b \in Batches :
                /\ \A k \in 1..Len(interim_combined[b].rows) :
                      interim_combined[b].rows[k].labor_with_AI_skill \in {0, 1}
                /\ interim_filtered[b].exists =>
                      /\ Len(Agg(b)) = Len(interim_combined[b].rows)
                      /\ \A k \in 1..Len(Agg(b)) :
                            Agg(b)[k].labor_with_AI_skill =
                                interim_combined[b].rows[k].labor_with_AI_skill)
    /\ [][Part2Over => interim_combined' = interim_combined]_vars

\* C20 witness: a run has ended after aggregating an expanded batch that
\* holds a row flagged 1 and a row flagged 0.
C20_Witness ==
    /\ pc = "done"
    /\ \E b \in Batches :
        /\ interim_filtered[b].exists
        /\ \E j, k \in 1..Len(Agg(b)) :
              Agg(b)[j].labor_with_AI_skill = 1 /\ Agg(b)[k].labor_with_AI_skill = 0

\* C21: every batch of a run is joined against the reference tables as they
\* were before the first batch (rcid 1 -> id_parat 1, role 1 -> tag 1),
\* whatever happens to the reference files during the run.
C21_SameTablesForAllBatches ==
    \A b \in Batches : \A k \in 1..Len(interim_combined[b].rows) :
        /\ interim_combined[b].rows[k].rcid = 1 => interim_combined[b].rows[k].id_parat = 1
        /\ interim_combined[b].rows[k].role_k1000 = 1 => interim_combined[b].rows[k].tag = 1

\* Part 3 has ended, at the end of its loop or at a failed validation
Part3Stopped == Part3Over \/ pc = "part3_crashed"

\* A batch whose expanded file exists and holds valid values only
ValidBatch(b) == interim_combined[b].exists /\ ~InvalidBatch(b)

\* An aggregated file made of the rows of the expanded file of its own batch:
\* row by row the expanded columns, and as rcid_total the distinct individuals
\* of the row's (rcid, year) within the batch
FromOwnRows(b) ==
    /\ ValidBatch(b)
    /\ Len(Agg(b)) = Len(interim_combined[b].rows)
    /\ \A r \in 1..Len(Agg(b)) :
        /\ \A c \in DOMAIN interim_combined[b].rows[r] :
              Agg(b)[r][c] = interim_combined[b].rows[r][c]
        /\ Agg(b)[r].rcid # NaN =>
              Agg(b)[r].rcid_total =
                  DistinctUsers(interim_combined[b].rows, "total", "rcid", r)

\* C22 as stated: whether a batch gets its aggregated file depends on its own
\* rows only: once Part 3 has ended, every valid expanded batch has its
\* aggregated file, whatever the other batches hold.
C22_BatchesIndependent ==
    Part3Stopped => \A b \in Batches : ValidBatch(b) => interim_filtered[b].exists

\* C22 as amended: the content of an aggregated file depends on the rows of
\* its own batch only (two batches with the same rows get the same file), and
\* it is written for every valid batch the loop reaches before a validation
\* fails; from the failing batch on (python_codes.py: in the order of the
\* names; ai_workforce.py: the files not yet taken from the listing) no
\* aggregated file is written, valid or not.
C22_OwnRowsUntilFirstFailure ==
    /\ \A b \in Batches : interim_filtered[b].exists => FromOwnRows(b)
    /\ \A b1, b2 \in Batches :
          (/\ interim_filtered[b1].exists /\ interim_filtered[b2].exists
           /\ interim_combined[b1].rows = interim_combined[b2].rows) => Agg(b1) = Agg(b2)
    /\ (Part3Stopped /\ ~validation_error) =>
          \A b \in Batches : interim_filtered[b].exists <=> interim_combined[b].exists
    /\ (Part3Stopped /\ validation_error) =>
          \A b \in Batches :
              interim_filtered[b].exists <=>
                  /\ interim_combined[b].exists
                  /\ IF script = PythonCodes THEN b < i ELSE b \notin todo

\* C22 witness: python_codes.py has finished after the validation failed on
\* the first batch, and the second batch, valid, has no aggregated file.
C22_Witness ==
    /\ script = PythonCodes
    /\ pc = "done"
    /\ validation_error
    /\ InvalidBatch(1)
    /\ \E b \in Batches : b > 1 /\ ValidBatch(b) /\ ~interim_filtered[b].exists

\* The part a run is in
PartOf(p) ==
    CASE p \in {"part1_init", "part1_crashed", "part1_loop"} -> 1
      [] p \in {"part2_init", "part2_load_crashed", "part2_loop", "part2_crashed"} -> 2
      [] p \in {"part3_init", "part3_loop", "part3_crashed"} -> 3
      [] OTHER -> 4

\* C23: the parts of a run follow each other in the order 1, 2, 3, 4 (a step
\* stays in its part or enters the next one, until the script is started
\* again), and among the files the parts have written, first runs and later
\* ones, the names Part 3 takes are names of files of Part 2 only, and the
\* names Part 4 takes are names of files of Part 3 only; every loop of Part 3
\* or 4 visits files of the part before it.
C23_PartsInOrderDataForward ==
    /\ [](/\ \A f \in os_listdir :
              /\ part3_selects(script, f.name) => f.part = 2
              /\ part4_selects(script, f.name) => f.part = 3
          /\ pc = "part3_loop" => \A b \in todo : interim_combined[b].exists
          /\ pc = "part4_loop" =>
                /\ \A b \in todo : interim_filtered[b].exists
                /\ Len(dataframes) + Cardinality(todo)
                      = Cardinality({b \in Batches : interim_filtered[b].exists}))
    /\ [][\/ PartOf(pc') = PartOf(pc)
          \/ PartOf(pc') = PartOf(pc) + 1
          \/ pc = "done" /\ pc' = "part1_init"]_vars

\* C23 witness: a second run enters Part 3 (and, further, Part 4) over a
\* directory that holds the files of all four parts of the run before it.
C23_Witness ==
    /\ pc \in {"part3_init", "part4_init"}
    /\ \A p \in 1..4 : \E f \in os_listdir : f.part = p
    /\ \E f \in os_listdir : part3_selects(script, f.name)
    /\ \E f \in os_listdir : part4_selects(script, f.name)
    /\ final_table.exists

\* The (rcid, year) pairs of the rows of a frame
FirmYears(df) == {<<df[k].rcid, df[k].year>> : k \in 1..Len(df)}

\* C24: when a run has finished, every (rcid, year) pair of an expanded row of
\* a batch that was aggregated and projected is the pair of a row of the
\* final firm-year table (and, in python_codes.py, of a row of the firm-year
\* file of the batch), rows with a missing id_parat or tag included.
C24_NoFirmYearLost ==
    pc = "done" =>
        \A b \in Batches :
            interim_filtered[b].exists =>
                /\ final_table.exists
                /\ FirmYears(interim_combined[b].rows) \subseteq FirmYears(final_table.rows)
                /\ script = PythonCodes =>
                      /\ firm_year[b].exists
                      /\ FirmYears(interim_combined[b].rows) = FirmYears(firm_year[b].rows)

\* C24 witness: python_codes.py has finished over two aggregated batches of
\* different firm-years; a row of one of them has neither id_parat nor tag.
C24_Witness ==
    /\ script = PythonCodes
    /\ pc = "done"
    /\ \E b1, b2 \in Batches :
        /\ firm_year[b1].exists /\ firm_year[b2].exists
        /\ FirmYears(interim_combined[b1].rows) \cap FirmYears(interim_combined[b2].rows) = {}
        /\ \E k \in 1..Len(interim_combined[b1].rows) :
              /\ interim_combined[b1].rows[k].id_parat = NaN
              /\ interim_combined[b1].rows[k].tag = NaN

====
